---- MODULE Spec2Model ----
(***************************************************************************)
(* ProtonX legal text classification / OCR service.                        *)
(*                                                                         *)
(* The state is the two module-level singletons (model_instance of         *)
(* src/model.py, _ocr_processor of src/ocr_model.py), the objects they     *)
(* refer to, the process-wide settings, the ASGI lifespan phase and the    *)
(* last response with the calls the last operation made.                   *)
(*                                                                         *)
(* Strings the code computes on (lower(), strip(), split(), startswith())  *)
(* are sequences of one-character strings; exception messages and log      *)
(* labels, which the code only passes on, are plain strings.               *)
(***************************************************************************)
EXTENDS Integers, Sequences, FiniteSets, TLC

VARIABLES
    settings,        \* src/config.py: Settings(), read-only after import
    libs,            \* import-time flags of src/ocr_model.py and the host's tesseract binary
    phase,           \* ASGI lifespan: "starting", "serving", "aborted"; "off": app driven without lifespan
    model_instance,  \* src/model.py: global model_instance (None or a classifier id)
    classifiers,     \* the heap of LegalTextClassifier objects: id -> object
    _ocr_processor,  \* src/ocr_model.py: global _ocr_processor (None or a processor id)
    processors,      \* the heap of OCRProcessor objects still referenced: id -> object
    gm,              \* what the last get_model call returned (None when it raised or none was made)
    gop,             \* the last get_ocr_processor call: its arguments, what it returned, whether it constructed
    upload,          \* the file the last request uploaded (NoUpload when it carried none)
    resp,            \* the last HTTP response
    calls,           \* the calls made by the last operation, in order; "raise" and str(e) where one raised
    input_data,      \* the texts the last request sent to /predict or /predict/batch (<<>> otherwise)
    native,          \* what the OCR backend reported to the last request (NoDetections when none ran)
    threads          \* the threads calling get_model directly: each one's position and locals

vars == <<settings, libs, phase, model_instance, classifiers, _ocr_processor, processors, gm, gop, upload, resp, calls,
          input_data, native, threads>>

(***************************************************************************)
(* Bounds of the model.                                                    *)
(***************************************************************************)
\* Longest batch of texts sent to /predict/batch.
MaxBatch == 2

\* Number of threads that call get_model at the same time.
MaxCallers == 2

(***************************************************************************)
(* Strings.                                                                *)
(***************************************************************************)
None == 0

S_easyocr == <<"e", "a", "s", "y", "o", "c", "r">>
S_EasyOCR == <<"E", "a", "s", "y", "O", "C", "R">>
S_tesseract == <<"t", "e", "s", "s", "e", "r", "a", "c", "t">>
S_paddle == <<"p", "a", "d", "d", "l", "e">>
S_image_slash == <<"i", "m", "a", "g", "e", "/">>
S_vi == <<"v", "i">>
S_en == <<"e", "n">>

\* str.lower() on the letters the engine names use.
LowerChar(c) ==
    CASE c = "E" -> "e"
      [] c = "O" -> "o"
      [] c = "C" -> "c"
      [] c = "R" -> "r"
      [] c = "T" -> "t"
      [] OTHER -> c

Lower(s) == [i \in DOMAIN s |-> LowerChar(s[i])]

IsSpace(c) == c \in {" ", "\n", "\t"}

RECURSIVE LStrip(_)
LStrip(s) == IF s # <<>> /\ IsSpace(Head(s)) THEN LStrip(Tail(s)) ELSE s

RECURSIVE RStrip(_)
RStrip(s) == IF s # <<>> /\ IsSpace(s[Len(s)]) THEN RStrip(SubSeq(s, 1, Len(s) - 1)) ELSE s

\* str.strip()
Strip(s) == RStrip(LStrip(s))

\* str.startswith(p)
StartsWith(s, p) == Len(s) >= Len(p) /\ SubSeq(s, 1, Len(p)) = p

\* str.split(','): the pieces between commas, in order (always at least one).
RECURSIVE SplitFrom(_, _, _)
SplitFrom(s, i, cur) ==
    IF i > Len(s) THEN <<cur>>
    ELSE IF s[i] = "," THEN <<cur>> \o SplitFrom(s, i + 1, <<>>)
    ELSE SplitFrom(s, i + 1, Append(cur, s[i]))

SplitComma(s) == SplitFrom(s, 1, <<>>)

\* sep.join(parts)
RECURSIVE Join(_, _)
Join(parts, sep) ==
    IF parts = <<>> THEN <<>>
    ELSE IF Len(parts) = 1 THEN parts[1]
    ELSE parts[1] \o sep \o Join(Tail(parts), sep)

\* The Python string of a sequence of characters (for f-strings).
RECURSIVE Str(_)
Str(s) == IF s = <<>> THEN "" ELSE Head(s) \o Str(Tail(s))

\* An object id that no object of the heap has.
NewId(used) == CHOOSE i \in 1..(Cardinality(used) + 1) : i \notin used

Count(log, name) == Cardinality({i \in DOMAIN log : log[i] = name})

Called(log, name) == \E i \in DOMAIN log : log[i] = name

(***************************************************************************)
(* Exceptions and responses.                                               *)
(***************************************************************************)
NoExc == [kind |-> "none", status |-> 0, msg |-> "", detail |-> <<>>]

\* A Python exception that is not an HTTPException: its class and str(e).
Raise(cls, msg) == [kind |-> cls, status |-> 0, msg |-> msg, detail |-> <<>>]

\* The log entries of an exception raised: the mark and str(e).
RaiseLog(e) == IF e = NoExc THEN <<>> ELSE <<"raise", e.msg>>

\* fastapi.HTTPException(status_code, detail); the detail is the f-string's parts.
HTTPException(status, detail) == [kind |-> "HTTPException", status |-> status, msg |-> "", detail |-> detail]

Null == [null |-> TRUE]

\* UploadFile.content_type: None, or a string.
NoContentType == [none |-> TRUE, s |-> <<>>]

ContentType(s) == [none |-> FALSE, s |-> s]

\* A backend that reports no detection (and the value of a backend that did not run).
NoDetections == [err |-> "", dets |-> <<>>]

\* No thread is calling get_model directly.
NoThreads == <<>>

\* A request that uploads no file.
NoUpload == [content_type |-> NoContentType, size |-> 0, payload |-> "none"]

NoResponse == [route |-> "", status |-> 0, detail |-> <<>>, body |-> Null]

Ok200(route, body) == [route |-> route, status |-> 200, detail |-> <<>>, body |-> body]

\* What the framework answers when a handler raises HTTPException.
ErrorResponse(route, e) == [route |-> route, status |-> e.status, detail |-> e.detail, body |-> Null]

(***************************************************************************)
(* src/model.py                                                            *)
(***************************************************************************)
\* Where load_model can fail: the tokenizer download, the model download,
\* the move to the device; or not at all.
LoadOutcomes == {"ok", "tokenizer", "to_device"}

\* An outcome is drawn only for a call that is made: here, for load_model.
LoadChoices(mi) == IF mi = None THEN LoadOutcomes ELSE {"ok"}

\* LegalTextClassifier.__init__
LegalTextClassifier == [model |-> "None", tokenizer |-> "None", device |-> "None", model_loaded |-> FALSE]

\* LegalTextClassifier.load_model: the fields are assigned in order until the
\* failing step; the except clause logs and re-raises.
load_model(self, lo) ==
    LET s1 == [self EXCEPT !.device = "cpu"]
        s2 == [s1 EXCEPT !.tokenizer = "tokenizer"]
        s3 == [s2 EXCEPT !.model = "model"]
        s4 == [s3 EXCEPT !.model_loaded = TRUE]
    IN  CASE lo = "tokenizer" -> [self |-> s1, exc |-> Raise("OSError", "cannot load tokenizer")]
          [] lo = "to_device" -> [self |-> s3, exc |-> Raise("RuntimeError", "cannot move model to device")]
          [] OTHER -> [self |-> s4, exc |-> NoExc]

NoInstanceYet_Mutant(mi) == TRUE

\* The test of get_model: construct only when the global is None.
NoInstanceYet(mi) == mi = None

\* get_model: the global is assigned before load_model runs, so it stays
\* assigned when load_model raises.
get_model(mi, objs, lo) ==
    IF NoInstanceYet(mi)
    THEN LET id == NewId(DOMAIN objs)
             r == load_model(LegalTextClassifier, lo)
         IN  [model_instance |-> id,
              classifiers |-> objs @@ (id :> r.self),
              exc |-> r.exc,
              ret |-> IF r.exc = NoExc THEN id ELSE None,
              gm |-> IF r.exc = NoExc THEN id ELSE None,
              calls |-> <<"get_model", "LegalTextClassifier", "load_model">> \o RaiseLog(r.exc)]
    ELSE [model_instance |-> mi,
          classifiers |-> objs,
          exc |-> NoExc,
          ret |-> mi,
          gm |-> mi,
          calls |-> <<"get_model">>]

\* Number of classes of the wrapped sequence-classification model.
NumLabels == 3

\* The wrapped tokenizer + model + softmax on one text: a fixed, opaque
\* function of the text, in thousandths (the entries sum to 1000).
Probabilities(text) == [k \in 1..NumLabels |-> IF k = (Len(text) % NumLabels) + 1 THEN 1000 - 100 * (NumLabels - 1) ELSE 100]

Argmax_Mutant(p) == 0

\* torch.argmax(...).item(): the first index of a maximum, counted from 0.
Argmax(p) == (CHOOSE k \in DOMAIN p : (\A j \in DOMAIN p : p[j] <= p[k]) /\ (\A j \in DOMAIN p : j < k => p[j] < p[k])) - 1

\* model.config.id2label: the label of class k.
id2label(k) == "LABEL_" \o ToString(k)

\* The result dictionary predict and predict_batch build from one row of
\* probabilities; all_labels maps each label to its score.
ResultOf(p) ==
    [null |-> FALSE,
     predicted_class |-> Argmax(p),
     confidence |-> p[Argmax(p) + 1],
     all_scores |-> p,
     predicted_label |-> id2label(Argmax(p)),
     all_labels |-> [l \in {id2label(j - 1) : j \in DOMAIN p} |-> p[CHOOSE j \in DOMAIN p : id2label(j - 1) = l]]]

Forward_Mutant(texts) == [i \in DOMAIN texts |-> Probabilities(texts[Len(texts) + 1 - i])]

\* softmax(model(**tokenizer(texts)).logits): one row of probabilities per
\* text, each text scored independently of the others.
Forward(texts) == [i \in DOMAIN texts |-> Probabilities(texts[i])]

BatchRow_Mutant(probabilities, i) == [ResultOf(probabilities[i]) EXCEPT !.predicted_label = id2label(i)]

\* The body of predict_batch's loop: the result for row i.
BatchRow(probabilities, i) == ResultOf(probabilities[i])

\* How an inference call ends: "ok", or the message of what it raises.
InferOutcomes == {"ok", "CUDA out of memory"}

\* An outcome is drawn only for an inference that is made.
InferChoices(e, self) == IF e = NoExc /\ self.model_loaded THEN InferOutcomes ELSE {"ok"}

\* A predict that moves the classifier to another device while it runs.
LegalTextClassifier_predict_Mutant(self, text, po) ==
    [self |-> [self EXCEPT !.device = "cuda"], exc |-> NoExc, result |-> ResultOf(Forward(<<text>>)[1]),
     calls |-> <<"predict", "tokenizer", "model">>]

\* A predict_batch that does not test model_loaded.
LegalTextClassifier_predict_batch_Mutant(self, texts, po) ==
    [self |-> self, exc |-> NoExc, result |-> [i \in DOMAIN texts |-> ResultOf(Forward(texts)[i])],
     calls |-> <<"predict_batch", "tokenizer", "model">>]

\* LegalTextClassifier.predict: it assigns no attribute of self.
LegalTextClassifier_predict(self, text, po) ==
    IF ~self.model_loaded
    THEN [self |-> self, exc |-> Raise("RuntimeError", "Model not loaded. Call load_model() first."), result |-> Null,
          calls |-> <<"predict", "raise", "Model not loaded. Call load_model() first.">>]
    ELSE IF po # "ok"
    THEN [self |-> self, exc |-> Raise("RuntimeError", po), result |-> Null,
          calls |-> <<"predict", "tokenizer", "model", "raise", po>>]
    ELSE [self |-> self, exc |-> NoExc, result |-> ResultOf(Forward(<<text>>)[1]), calls |-> <<"predict", "tokenizer", "model">>]

\* LegalTextClassifier.predict_batch: it assigns no attribute of self.
LegalTextClassifier_predict_batch(self, texts, po) ==
    IF ~self.model_loaded
    THEN [self |-> self, exc |-> Raise("RuntimeError", "Model not loaded. Call load_model() first."), result |-> <<>>,
          calls |-> <<"predict_batch", "raise", "Model not loaded. Call load_model() first.">>]
    ELSE IF po # "ok"
    THEN [self |-> self, exc |-> Raise("RuntimeError", po), result |-> <<>>,
          calls |-> <<"predict_batch", "tokenizer", "model", "raise", po>>]
    ELSE [self |-> self, exc |-> NoExc, result |-> [i \in DOMAIN texts |-> BatchRow(Forward(texts), i)],
          calls |-> <<"predict_batch", "tokenizer", "model">>]

(***************************************************************************)
(* src/api.py: the classifier routes.                                      *)
(***************************************************************************)
\* The heap after a method ran on the object get_model returned (r: what
\* get_model gave, p: what the method gave).
HeapAfter(r, p) == IF r.exc = NoExc THEN [r.classifiers EXCEPT ![r.ret] = p.self] ELSE r.classifiers

\* Texts a client sends (TextInput and BatchTextInput require min_length 1).
Texts == {<<"x">>, <<"x", "y">>}

Batches == UNION {[1..n -> Texts] : n \in 1..MaxBatch}

\* Requests are served once startup has completed, or when the app is driven
\* without the lifespan protocol.
Serving == phase \in {"serving", "off"}

HandlerError_Mutant(status, prefix, e) == HTTPException(status, <<prefix>>)

\* raise HTTPException(status_code=..., detail=f"<prefix>{str(e)}")
HandlerError(status, prefix, e) == HTTPException(status, <<prefix, e.msg>>)

LifespanPhase_Mutant(e) == "serving"

\* lifespan: what becomes of the startup when get_model returned or raised
\* (the except clause logs and re-raises, which aborts the startup).
LifespanPhase(e) == IF e = NoExc THEN "serving" ELSE "aborted"

lifespan ==
    /\ phase = "starting"
    /\ \E lo \in LoadChoices(model_instance) :
        \E r \in {get_model(model_instance, classifiers, lo)} :
            /\ model_instance' = r.model_instance
            /\ classifiers' = r.classifiers
            /\ gm' = r.gm
            /\ phase' = LifespanPhase(r.exc)
            /\ calls' = r.calls
    /\ UNCHANGED <<settings, libs, _ocr_processor, processors, gop, upload, resp, input_data, native, threads>>

\* GET /health
health_response(r, objs) ==
    IF r.exc = NoExc
    THEN Ok200("/health", [null |-> FALSE, status |-> "healthy", model_loaded |-> objs[r.ret].model_loaded])
    ELSE ErrorResponse("/health", HandlerError(503, "Service unhealthy: ", r.exc))

health ==
    /\ Serving
    /\ \E lo \in LoadChoices(model_instance) :
        \E r \in {get_model(model_instance, classifiers, lo)} :
            /\ model_instance' = r.model_instance
            /\ classifiers' = r.classifiers
            /\ gm' = r.gm
            /\ resp' = health_response(r, r.classifiers)
            /\ calls' = r.calls
    /\ upload' = NoUpload
    /\ input_data' = <<>>
    /\ native' = NoDetections
    /\ UNCHANGED <<settings, libs, phase, _ocr_processor, processors, gop, threads>>

\* POST /predict: get_model, then predict; any exception becomes a 500.
predict_response(r, p) ==
    IF r.exc # NoExc THEN ErrorResponse("/predict", HandlerError(500, "Prediction failed: ", r.exc))
    ELSE IF p.exc # NoExc THEN ErrorResponse("/predict", HandlerError(500, "Prediction failed: ", p.exc))
    ELSE Ok200("/predict", p.result)

predict ==
    /\ Serving
    /\ \E lo \in LoadChoices(model_instance), text \in Texts :
        \E r \in {get_model(model_instance, classifiers, lo)} :
        \E po \in InferChoices(r.exc, r.classifiers[r.model_instance]) :
        \E p \in {IF r.exc = NoExc THEN LegalTextClassifier_predict(r.classifiers[r.ret], text, po)
                  ELSE [self |-> Null, exc |-> NoExc, result |-> Null, calls |-> <<>>]} :
            /\ model_instance' = r.model_instance
            /\ classifiers' = HeapAfter(r, p)
            /\ gm' = r.gm
            /\ resp' = predict_response(r, p)
            /\ input_data' = <<text>>
            /\ calls' = r.calls \o p.calls
    /\ upload' = NoUpload
    /\ native' = NoDetections
    /\ UNCHANGED <<settings, libs, phase, _ocr_processor, processors, gop, threads>>

\* POST /predict/batch
predict_batch_response(r, p) ==
    IF r.exc # NoExc THEN ErrorResponse("/predict/batch", HandlerError(500, "Batch prediction failed: ", r.exc))
    ELSE IF p.exc # NoExc THEN ErrorResponse("/predict/batch", HandlerError(500, "Batch prediction failed: ", p.exc))
    ELSE Ok200("/predict/batch", [null |-> FALSE, predictions |-> p.result])

predict_batch ==
    /\ Serving
    /\ \E lo \in LoadChoices(model_instance), texts_in \in Batches :
        \E r \in {get_model(model_instance, classifiers, lo)} :
        \E po \in InferChoices(r.exc, r.classifiers[r.model_instance]) :
        \E p \in {IF r.exc = NoExc THEN LegalTextClassifier_predict_batch(r.classifiers[r.ret], texts_in, po)
                  ELSE [self |-> Null, exc |-> NoExc, result |-> <<>>, calls |-> <<>>]} :
            /\ model_instance' = r.model_instance
            /\ classifiers' = HeapAfter(r, p)
            /\ gm' = r.gm
            /\ resp' = predict_batch_response(r, p)
            /\ input_data' = texts_in
            /\ calls' = r.calls \o p.calls
    /\ upload' = NoUpload
    /\ native' = NoDetections
    /\ UNCHANGED <<settings, libs, phase, _ocr_processor, processors, gop, threads>>

\* GET /model-info: the labels are added only when model.model is set.
model_info_response(r, objs) ==
    IF r.exc # NoExc THEN ErrorResponse("/model-info", HandlerError(500, "Failed to get model info: ", r.exc))
    ELSE Ok200("/model-info", [null |-> FALSE, device |-> objs[r.ret].device, model_loaded |-> objs[r.ret].model_loaded,
                               num_labels |-> IF objs[r.ret].model # "None" THEN NumLabels ELSE 0])

model_info ==
    /\ Serving
    /\ \E lo \in LoadChoices(model_instance) :
        \E r \in {get_model(model_instance, classifiers, lo)} :
            /\ model_instance' = r.model_instance
            /\ classifiers' = r.classifiers
            /\ gm' = r.gm
            /\ resp' = model_info_response(r, r.classifiers)
            /\ calls' = r.calls
    /\ upload' = NoUpload
    /\ input_data' = <<>>
    /\ native' = NoDetections
    /\ UNCHANGED <<settings, libs, phase, _ocr_processor, processors, gop, threads>>

(***************************************************************************)
(* src/ocr_model.py                                                        *)
(***************************************************************************)
\* OCRProcessor.__init__: the engine name is lower-cased, the language list
\* defaults when it is None or empty.
OCRProcessor(engine, languages) ==
    [engine |-> Lower(engine),
     languages |-> IF languages = <<>> THEN <<S_vi, S_en>> ELSE languages,
     reader |-> "None",
     _initialized |-> FALSE]

\* How easyocr.Reader(...) ends: "ok", or the message of what it raises.
ReaderOutcomes == {"ok", "cannot download detection model"}

\* An initialize that falls back to tesseract when easyocr cannot be used.
initialize_Mutant(self, lb, ro) ==
    IF self.engine = S_easyocr /\ lb.EASYOCR_AVAILABLE
    THEN [self |-> [self EXCEPT !.reader = "easyocr.Reader", !._initialized = TRUE], exc |-> NoExc,
          calls |-> <<"initialize", "easyocr.Reader">>]
    ELSE [self |-> [self EXCEPT !.engine = S_tesseract, !._initialized = TRUE], exc |-> NoExc,
          calls |-> <<"initialize", "pytesseract.get_tesseract_version">>]

\* OCRProcessor.initialize
initialize(self, lb, ro) ==
    IF self._initialized THEN [self |-> self, exc |-> NoExc, calls |-> <<"initialize">>]
    ELSE IF self.engine = S_easyocr
    THEN IF ~lb.EASYOCR_AVAILABLE
         THEN [self |-> self, exc |-> Raise("RuntimeError", "EasyOCR is not installed"), calls |-> <<"initialize">>]
         ELSE IF ro # "ok"
         THEN [self |-> self, exc |-> Raise("Exception", ro), calls |-> <<"initialize", "easyocr.Reader">>]
         ELSE [self |-> [self EXCEPT !.reader = "easyocr.Reader", !._initialized = TRUE], exc |-> NoExc,
               calls |-> <<"initialize", "easyocr.Reader">>]
    ELSE IF self.engine = S_tesseract
    THEN IF ~lb.PYTESSERACT_AVAILABLE
         THEN [self |-> self, exc |-> Raise("RuntimeError", "pytesseract is not installed"), calls |-> <<"initialize">>]
         ELSE IF ~lb.tesseract_binary
         THEN [self |-> self, exc |-> Raise("RuntimeError", "Tesseract executable not found. Please install tesseract-ocr. Original error: tesseract is not installed or it's not in your PATH"),
               calls |-> <<"initialize", "pytesseract.get_tesseract_version">>]
         ELSE [self |-> [self EXCEPT !._initialized = TRUE], exc |-> NoExc,
               calls |-> <<"initialize", "pytesseract.get_tesseract_version">>]
    ELSE [self |-> self, exc |-> Raise("ValueError", "Unknown OCR engine: " \o Str(self.engine)), calls |-> <<"initialize">>]

\* What a backend reports for one image: the message of what it raises, or
\* its detections, each a text with the backend's native confidence in
\* hundredths (easyocr: a float in [0,1]; tesseract: an integer, -1 for a
\* box that holds no word).
Det(text, conf) == [text |-> text, conf |-> conf]

BackendOutcomes(engine) ==
    {[err |-> "backend failed", dets |-> <<>>], [err |-> "", dets |-> <<>>],
     [err |-> "", dets |-> <<Det(<<"x">>, 90), Det(<<"y">>, 0)>>]}
    \cup (IF engine = S_tesseract
          THEN {[err |-> "", dets |-> <<Det(<<>>, -1), Det(<<"x", "y">>, 96)>>]}
          ELSE {[err |-> "", dets |-> <<Det(<<" ">>, 40)>>]})

\* A confidence as the fraction num/den.
Frac(num, den) == [num |-> num, den |-> den]

RECURSIVE SumNum(_)
SumNum(cs) == IF cs = <<>> THEN 0 ELSE Head(cs).num + SumNum(Tail(cs))

\* sum(confidences) / len(confidences) if confidences else 0.0
Average(cs) == IF cs = <<>> THEN Frac(0, 1) ELSE Frac(SumNum(cs), 100 * Len(cs))

\* OCRProcessor._process_with_easyocr: np.array(image) reads the pixel data.
_process_with_easyocr(image, oo) ==
    IF ~image.decodable THEN [exc |-> Raise("OSError", "image file is truncated"), result |-> Null, calls |-> <<"np.array">>]
    ELSE IF oo.err # "" THEN [exc |-> Raise("RuntimeError", oo.err), result |-> Null, calls |-> <<"np.array", "readtext">>]
    ELSE [exc |-> NoExc,
          result |-> [null |-> FALSE,
                      text |-> Join([i \in DOMAIN oo.dets |-> oo.dets[i].text], <<" ">>),
                      lines |-> [i \in DOMAIN oo.dets |-> [text |-> oo.dets[i].text, confidence |-> Frac(oo.dets[i].conf, 100)]],
                      average_confidence |-> Average([i \in DOMAIN oo.dets |-> Frac(oo.dets[i].conf, 100)]),
                      engine |-> S_easyocr],
          calls |-> <<"np.array", "readtext">>]

KeptBoxes_Mutant(dets) == dets

\* The boxes _process_with_tesseract keeps: int(conf) > 0.
KeptBoxes(dets) == SelectSeq(dets, LAMBDA d : d.conf > 0)

\* OCRProcessor._process_with_tesseract: image_to_string, then image_to_data.
_process_with_tesseract(image, oo) ==
    IF ~image.decodable
    THEN [exc |-> Raise("OSError", "image file is truncated"), result |-> Null, calls |-> <<"image_to_string">>]
    ELSE IF oo.err # ""
    THEN [exc |-> Raise("RuntimeError", oo.err), result |-> Null, calls |-> <<"image_to_string">>]
    ELSE LET kept == KeptBoxes(oo.dets)
         IN  [exc |-> NoExc,
              result |-> [null |-> FALSE,
                          text |-> Strip(Join([i \in DOMAIN oo.dets |-> oo.dets[i].text], <<" ">>) \o <<"\n">>),
                          lines |-> [i \in DOMAIN kept |-> [text |-> kept[i].text, confidence |-> Frac(kept[i].conf, 100)]],
                          average_confidence |-> Average([i \in DOMAIN kept |-> Frac(kept[i].conf, 100)]),
                          engine |-> S_tesseract],
              calls |-> <<"image_to_string", "image_to_data">>]

\* A process_image that never initializes.
NeedsInitialize_Mutant(self) == FALSE

\* The test process_image opens with: if not self._initialized
NeedsInitialize(self) == ~self._initialized

\* OCRProcessor.process_image: initialize when needed, then run the backend
\* the processor was constructed with.
process_image(self, image, lb, ro, oo) ==
    LET i == IF NeedsInitialize(self) THEN initialize(self, lb, ro) ELSE [self |-> self, exc |-> NoExc, calls |-> <<>>]
        b == IF i.self.engine = S_easyocr THEN _process_with_easyocr(image, oo)
             ELSE IF i.self.engine = S_tesseract THEN _process_with_tesseract(image, oo)
             ELSE [exc |-> Raise("ValueError", "Unknown OCR engine: " \o Str(i.self.engine)), result |-> Null, calls |-> <<>>]
    IN  IF i.exc # NoExc
        THEN [self |-> i.self, exc |-> i.exc, result |-> Null, calls |-> <<"process_image">> \o i.calls \o RaiseLog(i.exc)]
        ELSE [self |-> i.self, exc |-> b.exc, result |-> b.result,
              calls |-> <<"process_image">> \o i.calls \o b.calls \o RaiseLog(b.exc)]

CacheMiss_Mutant(op, objs, engine, languages) ==
    op = None \/ objs[op].engine # engine

\* The test of get_ocr_processor: the cached processor is reused only when
\* its engine and languages equal the arguments.
CacheMiss(op, objs, engine, languages) ==
    op = None \/ objs[op].engine # engine \/ objs[op].languages # languages

\* get_ocr_processor: the global is assigned before initialize runs. The
\* processor the global referred to before is referenced no more, and leaves
\* the heap; the new one gets an id the old one did not have.
get_ocr_processor(op, objs, engine, languages, lb, ro) ==
    LET langs == IF languages = <<>> THEN <<S_vi, S_en>> ELSE languages
    IN  IF CacheMiss(op, objs, engine, langs)
        THEN LET id == NewId(DOMAIN objs)
                 r == initialize(OCRProcessor(engine, langs), lb, ro)
             IN  [_ocr_processor |-> id,
                  processors |-> (id :> r.self),
                  exc |-> r.exc,
                  ret |-> IF r.exc = NoExc THEN id ELSE None,
                  gop |-> [engine |-> engine, languages |-> languages, ret |-> IF r.exc = NoExc THEN id ELSE None,
                           constructed |-> TRUE],
                  calls |-> <<"get_ocr_processor", "OCRProcessor">> \o r.calls \o RaiseLog(r.exc)]
        ELSE [_ocr_processor |-> op,
              processors |-> objs,
              exc |-> NoExc,
              ret |-> op,
              gop |-> [engine |-> engine, languages |-> languages, ret |-> op, constructed |-> FALSE],
              calls |-> <<"get_ocr_processor">>]

(***************************************************************************)
(* src/api.py: the OCR routes.                                             *)
(***************************************************************************)
\* settings.max_upload_size (10MB default)
max_upload_size == 10 * 1024 * 1024

ContentTypes ==
    {NoContentType, ContentType(<<>>),
     ContentType(<<"t", "e", "x", "t", "/", "p", "l", "a", "i", "n">>),
     ContentType(<<"i", "m", "a", "g", "e">>),
     ContentType(<<"i", "m", "a", "g", "e", "/", "p", "n", "g">>)}

\* What the uploaded bytes are to PIL: a complete image; bytes with no known
\* image header; an image header followed by cut-off pixel data; an image
\* whose header declares more pixels than PIL's decompression-bomb limit.
Payloads == {"valid", "unidentified", "truncated", "bomb"}

S_image_png == <<"i", "m", "a", "g", "e", "/", "p", "n", "g">>

\* The uploads a client sends: under an image content type, no bytes at all,
\* or any payload of exactly the size limit or one byte more; under every
\* other content type, a complete image one byte over the limit.
Files ==
    {[content_type |-> ContentType(S_image_png), size |-> 0, payload |-> "unidentified"]}
    \cup [content_type : {ContentType(S_image_png)}, size : {max_upload_size, max_upload_size + 1}, payload : Payloads]
    \cup [content_type : ContentTypes \ {ContentType(S_image_png)}, size : {max_upload_size + 1}, payload : {"valid"}]

\* not file.content_type or not file.content_type.startswith('image/')
NotAnImageType(ct) == ct.none \/ ct.s = <<>> \/ ~StartsWith(ct.s, S_image_slash)

TooLarge_Mutant(n) == n >= max_upload_size

\* len(image_data) > settings.max_upload_size
TooLarge(n) == n > max_upload_size

\* PIL.Image.open: identifies the file from its header and reads no pixel
\* data (the image is decoded when its data is first used).
ImageOpen(payload) ==
    CASE payload = "unidentified" -> [exc |-> Raise("UnidentifiedImageError", "cannot identify image file"), image |-> Null]
      [] payload = "bomb" -> [exc |-> Raise("DecompressionBombError", "Image size exceeds limit"), image |-> Null]
      [] payload = "truncated" -> [exc |-> NoExc, image |-> [null |-> FALSE, decodable |-> FALSE]]
      [] OTHER -> [exc |-> NoExc, image |-> [null |-> FALSE, decodable |-> TRUE]]

\* validate_and_load_image
validate_and_load_image(file) ==
    IF NotAnImageType(file.content_type)
    THEN [exc |-> HTTPException(400, <<"File must be an image">>), image |-> Null, calls |-> <<>>]
    ELSE IF TooLarge(file.size)
    THEN [exc |-> HTTPException(413, <<"File too large. Maximum size: ", ToString(max_upload_size), " bytes">>),
          image |-> Null, calls |-> <<"read">>]
    ELSE LET o == ImageOpen(file.payload)
         IN  IF o.exc.kind \in {"UnidentifiedImageError", "OSError"}
             THEN [exc |-> HTTPException(400, <<"Invalid image file: ", o.exc.msg>>), image |-> Null, calls |-> <<"read", "Image.open">>]
             ELSE [exc |-> o.exc, image |-> o.image, calls |-> <<"read", "Image.open">> \o RaiseLog(o.exc)]

\* [lang.strip() for lang in settings.ocr_languages.split(',')]
ParseLanguages(s) == [i \in DOMAIN SplitComma(s) |-> Strip(SplitComma(s)[i])]

\* get_configured_ocr_processor
get_configured_ocr_processor(op, objs, st, lb, ro) ==
    get_ocr_processor(op, objs, st.ocr_engine, ParseLanguages(st.ocr_languages), lb, ro)

RouteExcept_Mutant(e) == HandlerError(500, "OCR processing failed: ", e)

\* The except clauses of the OCR routes: an HTTPException is re-raised as it
\* is, any other exception becomes a 500 carrying its message.
RouteExcept(e) == IF e.kind = "HTTPException" THEN e ELSE HandlerError(500, "OCR processing failed: ", e)

\* The steps both OCR routes start with: validate and load the image, get
\* the processor, process the image.
ocr_steps(file, op, objs, g, st, lb, ro, oo) ==
    LET v == validate_and_load_image(file)
    IN
    IF v.exc # NoExc
    THEN [exc |-> v.exc, result |-> Null, _ocr_processor |-> op, processors |-> objs, gop |-> g, calls |-> v.calls]
    ELSE LET c == get_configured_ocr_processor(op, objs, st, lb, ro)
         IN  IF c.exc # NoExc
             THEN [exc |-> c.exc, result |-> Null, _ocr_processor |-> c._ocr_processor, processors |-> c.processors,
                   gop |-> c.gop, calls |-> v.calls \o c.calls]
             ELSE LET p == process_image(c.processors[c.ret], v.image, lb, ro, oo)
                  IN  [exc |-> p.exc, result |-> p.result, _ocr_processor |-> c._ocr_processor,
                       processors |-> [c.processors EXCEPT ![c.ret] = p.self],
                       gop |-> c.gop, calls |-> v.calls \o c.calls \o p.calls]

\* Outcomes are drawn only for the calls that are made: those of a run in
\* which nothing fails.
ReaderChoices(file, op, objs, g, st, lb) ==
    IF Called(ocr_steps(file, op, objs, g, st, lb, "ok", NoDetections).calls, "easyocr.Reader") THEN ReaderOutcomes ELSE {"ok"}

BackendChoices(file, op, objs, g, st, lb, ro) ==
    IF ocr_steps(file, op, objs, g, st, lb, ro, NoDetections).exc = NoExc THEN BackendOutcomes(Lower(st.ocr_engine)) ELSE {NoDetections}

\* POST /ocr/upload
ocr_upload_response(o) ==
    IF o.exc # NoExc THEN ErrorResponse("/ocr/upload", RouteExcept(o.exc)) ELSE Ok200("/ocr/upload", o.result)

ocr_upload ==
    /\ Serving
    /\ \E file \in Files :
       \E ro \in ReaderChoices(file, _ocr_processor, processors, gop, settings, libs) :
       \E oo \in BackendChoices(file, _ocr_processor, processors, gop, settings, libs, ro) :
        \E o \in {ocr_steps(file, _ocr_processor, processors, gop, settings, libs, ro, oo)} :
            /\ _ocr_processor' = o._ocr_processor
            /\ processors' = o.processors
            /\ gop' = o.gop
            /\ upload' = file
            /\ resp' = ocr_upload_response(o)
            /\ calls' = o.calls
            /\ native' = oo
    /\ input_data' = <<>>
    /\ UNCHANGED <<settings, libs, phase, model_instance, classifiers, gm, threads>>

HasText_Mutant(text) == text # <<>>

SwallowClassificationError_Mutant(e) == e

\* if ocr_result['text'].strip():
HasText(text) == Strip(text) # <<>>

\* except Exception as e: logger.warning(...)  -- continue without classification
SwallowClassificationError(e) == NoExc

\* The classification step of /ocr/upload-and-classify.
classify_step(text, mi, objs, g, lo, po) ==
    IF ~HasText(text)
    THEN [exc |-> NoExc, classification |-> Null, model_instance |-> mi, classifiers |-> objs, gm |-> g, calls |-> <<>>]
    ELSE LET r == get_model(mi, objs, lo)
             p == IF r.exc = NoExc THEN LegalTextClassifier_predict(r.classifiers[r.ret], text, po)
                  ELSE [self |-> Null, exc |-> r.exc, result |-> Null, calls |-> <<>>]
         IN  [exc |-> IF p.exc = NoExc THEN NoExc ELSE SwallowClassificationError(p.exc),
              classification |-> p.result,
              model_instance |-> r.model_instance, classifiers |-> HeapAfter(r, p), gm |-> r.gm,
              calls |-> r.calls \o p.calls]

ClassifyLoadChoices(o, mi) == IF o.exc = NoExc /\ HasText(o.result.text) THEN LoadChoices(mi) ELSE {"ok"}

ClassifyInferChoices(o, mi, objs, lo) ==
    IF o.exc = NoExc /\ HasText(o.result.text)
    THEN InferChoices(get_model(mi, objs, lo).exc, get_model(mi, objs, lo).classifiers[get_model(mi, objs, lo).model_instance])
    ELSE {"ok"}

\* POST /ocr/upload-and-classify
ocr_upload_and_classify_response(o, c) ==
    IF o.exc # NoExc THEN ErrorResponse("/ocr/upload-and-classify", RouteExcept(o.exc))
    ELSE IF c.exc # NoExc THEN ErrorResponse("/ocr/upload-and-classify", RouteExcept(c.exc))
    ELSE Ok200("/ocr/upload-and-classify", [null |-> FALSE, ocr_result |-> o.result, classification |-> c.classification])

ocr_upload_and_classify ==
    /\ Serving
    /\ \E file \in Files :
       \E ro \in ReaderChoices(file, _ocr_processor, processors, gop, settings, libs) :
       \E oo \in BackendChoices(file, _ocr_processor, processors, gop, settings, libs, ro) :
        \E o \in {ocr_steps(file, _ocr_processor, processors, gop, settings, libs, ro, oo)} :
        \E lo \in ClassifyLoadChoices(o, model_instance) :
        \E po \in ClassifyInferChoices(o, model_instance, classifiers, lo) :
        \E c \in {IF o.exc = NoExc THEN classify_step(o.result.text, model_instance, classifiers, gm, lo, po)
                  ELSE [exc |-> NoExc, classification |-> Null, model_instance |-> model_instance,
                        classifiers |-> classifiers, gm |-> gm, calls |-> <<>>]} :
            /\ _ocr_processor' = o._ocr_processor
            /\ processors' = o.processors
            /\ gop' = o.gop
            /\ model_instance' = c.model_instance
            /\ classifiers' = c.classifiers
            /\ gm' = c.gm
            /\ upload' = file
            /\ resp' = ocr_upload_and_classify_response(o, c)
            /\ calls' = o.calls \o c.calls
            /\ native' = oo
    /\ input_data' = <<>>
    /\ UNCHANGED <<settings, libs, phase, threads>>

\* GET /
root ==
    /\ Serving
    /\ resp' = Ok200("/", [null |-> FALSE, message |-> "ProtonX Legal Text Classification API"])
    /\ calls' = <<>>
    /\ upload' = NoUpload
    /\ input_data' = <<>>
    /\ native' = NoDetections
    /\ UNCHANGED <<settings, libs, phase, model_instance, classifiers, _ocr_processor, processors, gm, gop, threads>>

(***************************************************************************)
(* Specification.                                                          *)
(***************************************************************************)
\* settings.ocr_engine and settings.ocr_languages come from the environment.
EngineSettings == {S_easyocr, S_EasyOCR, S_tesseract, S_paddle}

LanguageSettings == {<<"v", "i", ",", " ", "e", "n">>}

\* What is installed: everything, or all but one of the OCR dependencies.
LibSets ==
    {[EASYOCR_AVAILABLE |-> TRUE, PYTESSERACT_AVAILABLE |-> TRUE, tesseract_binary |-> TRUE],
     [EASYOCR_AVAILABLE |-> FALSE, PYTESSERACT_AVAILABLE |-> TRUE, tesseract_binary |-> TRUE],
     [EASYOCR_AVAILABLE |-> TRUE, PYTESSERACT_AVAILABLE |-> FALSE, tesseract_binary |-> TRUE],
     [EASYOCR_AVAILABLE |-> TRUE, PYTESSERACT_AVAILABLE |-> TRUE, tesseract_binary |-> FALSE]}

\* The process after import: both singletons None. With phase "starting" the
\* server runs the lifespan first (uvicorn, as src/main.py starts it); with
\* "off" the app is driven without the lifespan protocol.
Init ==
    /\ settings \in [ocr_engine : EngineSettings, ocr_languages : LanguageSettings]
    /\ libs \in LibSets
    /\ phase \in {"starting", "off"}
    /\ model_instance = None
    /\ classifiers = <<>>
    /\ _ocr_processor = None
    /\ processors = <<>>
    /\ gm = None
    /\ gop = [engine |-> <<>>, languages |-> <<>>, ret |-> None, constructed |-> FALSE]
    /\ upload = NoUpload
    /\ resp = NoResponse
    /\ calls = <<>>
    /\ input_data = <<>>
    /\ native = NoDetections
    /\ threads = NoThreads

(***************************************************************************)
(* src/ocr_model.py used as a library: get_ocr_processor called directly,   *)
(* with any engine and language list.                                      *)
(***************************************************************************)
EngineArgs == {S_easyocr, S_EasyOCR, S_tesseract, S_paddle}

\* languages: None (as the empty list: both take the default), or a list.
LanguageArgs == {<<>>, <<S_vi, S_en>>, <<S_en>>}

call_get_ocr_processor ==
    /\ \E engine \in EngineArgs, languages \in LanguageArgs :
       \E ro \in (IF Called(get_ocr_processor(_ocr_processor, processors, engine, languages, libs, "ok").calls, "easyocr.Reader")
                  THEN ReaderOutcomes ELSE {"ok"}) :
        \E r \in {get_ocr_processor(_ocr_processor, processors, engine, languages, libs, ro)} :
            /\ _ocr_processor' = r._ocr_processor
            /\ processors' = r.processors
            /\ gop' = r.gop
            /\ calls' = r.calls
    /\ UNCHANGED <<settings, libs, phase, model_instance, classifiers, gm, upload, resp, input_data, native, threads>>

\* The images a caller passes to process_image: opened by PIL, with pixel
\* data that decodes or does not.
Images == {[null |-> FALSE, decodable |-> TRUE], [null |-> FALSE, decodable |-> FALSE]}

\* processor.initialize() on the processor the module global refers to (the
\* one get_ocr_processor hands out).
call_initialize ==
    /\ _ocr_processor # None
    /\ \E ro \in (IF Called(initialize(processors[_ocr_processor], libs, "ok").calls, "easyocr.Reader")
                  THEN ReaderOutcomes ELSE {"ok"}) :
        \E r \in {initialize(processors[_ocr_processor], libs, ro)} :
            /\ processors' = [processors EXCEPT ![_ocr_processor] = r.self]
            /\ calls' = r.calls \o RaiseLog(r.exc)
    /\ UNCHANGED <<settings, libs, phase, model_instance, classifiers, _ocr_processor, gm, gop, upload, resp,
                   input_data, native, threads>>

\* processor.process_image(image) on the same processor.
call_process_image ==
    /\ _ocr_processor # None
    /\ \E image \in Images :
       \E ro \in (IF Called(process_image(processors[_ocr_processor], image, libs, "ok", NoDetections).calls, "easyocr.Reader")
                  THEN ReaderOutcomes ELSE {"ok"}) :
       \E oo \in (IF process_image(processors[_ocr_processor], image, libs, ro, NoDetections).exc = NoExc
                  THEN BackendOutcomes(processors[_ocr_processor].engine) ELSE {NoDetections}) :
        \E r \in {process_image(processors[_ocr_processor], image, libs, ro, oo)} :
            /\ processors' = [processors EXCEPT ![_ocr_processor] = r.self]
            /\ calls' = r.calls
            /\ native' = oo
    /\ UNCHANGED <<settings, libs, phase, model_instance, classifiers, _ocr_processor, gm, gop, upload, resp,
                   input_data, threads>>

NextOCR == call_get_ocr_processor \/ call_initialize \/ call_process_image

SpecOCR == Init /\ [][NextOCR]_vars

(***************************************************************************)
(* src/model.py: get_model called from several threads at once. It holds   *)
(* no lock, so its statements interleave; each thread reads the global     *)
(* anew in every statement that names it.                                  *)
(***************************************************************************)
Callers == 1..MaxCallers

Idle == [pc |-> "idle", target |-> None, ret |-> None]

AssignGlobal_Mutant(mi, id) == IF mi = None THEN id ELSE mi

\* model_instance = LegalTextClassifier(): the global becomes the new
\* object, whatever it referred to.
AssignGlobal(mi, id) == id

\* if model_instance is None:
get_model_check ==
    /\ \E t \in Callers :
        /\ threads[t].pc = "idle"
        /\ threads' = [threads EXCEPT ![t].pc = IF NoInstanceYet(model_instance) THEN "construct" ELSE "return"]
    /\ UNCHANGED <<settings, libs, phase, model_instance, classifiers, _ocr_processor, processors, gm, gop, upload, resp,
                   calls, input_data, native>>

\* model_instance = LegalTextClassifier()
get_model_construct ==
    /\ \E t \in Callers :
        /\ threads[t].pc = "construct"
        /\ classifiers' = classifiers @@ (NewId(DOMAIN classifiers) :> LegalTextClassifier)
        /\ model_instance' = AssignGlobal(model_instance, NewId(DOMAIN classifiers))
        /\ threads' = [threads EXCEPT ![t].pc = "load"]
    /\ UNCHANGED <<settings, libs, phase, _ocr_processor, processors, gm, gop, upload, resp, calls, input_data, native>>

\* model_instance.load_model(): the object the global refers to now is the
\* one whose load_model runs.
get_model_load_start ==
    /\ \E t \in Callers :
        /\ threads[t].pc = "load"
        /\ threads' = [threads EXCEPT ![t].pc = "loading", ![t].target = model_instance]
    /\ UNCHANGED <<settings, libs, phase, model_instance, classifiers, _ocr_processor, processors, gm, gop, upload, resp,
                   calls, input_data, native>>

\* load_model returns or raises.
get_model_load_finish ==
    /\ \E t \in Callers, lo \in LoadOutcomes :
        /\ threads[t].pc = "loading"
        /\ \E r \in {load_model(classifiers[threads[t].target], lo)} :
            /\ classifiers' = [classifiers EXCEPT ![threads[t].target] = r.self]
            /\ threads' = [threads EXCEPT ![t].pc = IF r.exc = NoExc THEN "return" ELSE "raised"]
    /\ UNCHANGED <<settings, libs, phase, model_instance, _ocr_processor, processors, gm, gop, upload, resp,
                   calls, input_data, native>>

\* return model_instance
get_model_return ==
    /\ \E t \in Callers :
        /\ threads[t].pc = "return"
        /\ threads' = [threads EXCEPT ![t].pc = "done", ![t].ret = model_instance]
    /\ UNCHANGED <<settings, libs, phase, model_instance, classifiers, _ocr_processor, processors, gm, gop, upload, resp,
                   calls, input_data, native>>

InitRace ==
    /\ settings = [ocr_engine |-> S_easyocr, ocr_languages |-> <<"v", "i", ",", "e", "n">>]
    /\ libs = [EASYOCR_AVAILABLE |-> TRUE, PYTESSERACT_AVAILABLE |-> TRUE, tesseract_binary |-> TRUE]
    /\ phase = "off"
    /\ model_instance = None
    /\ classifiers = <<>>
    /\ _ocr_processor = None
    /\ processors = <<>>
    /\ gm = None
    /\ gop = [engine |-> <<>>, languages |-> <<>>, ret |-> None, constructed |-> FALSE]
    /\ upload = NoUpload
    /\ resp = NoResponse
    /\ calls = <<>>
    /\ input_data = <<>>
    /\ native = NoDetections
    /\ threads = [t \in Callers |-> Idle]

NextRace == get_model_check \/ get_model_construct \/ get_model_load_start \/ get_model_load_finish \/ get_model_return

SpecRace == InitRace /\ [][NextRace]_vars

Next == lifespan \/ root \/ health \/ predict \/ predict_batch \/ model_info \/ ocr_upload \/ ocr_upload_and_classify

Spec == Init /\ [][Next]_vars

(***************************************************************************)
(* Properties.                                                             *)
(***************************************************************************)
ClassifierRoutes == {"/health", "/predict", "/predict/batch", "/model-info"}

OCRRoutes == {"/ocr/upload", "/ocr/upload-and-classify"}

\* C1: on every route that uses the classifier, a request answered while the
\* singleton is not loaded (get_model failed to load it, in this request or
\* in an earlier one) is answered with status 503.
C1_UnavailableIs503 ==
    (resp.route \in ClassifierRoutes /\ model_instance # None /\ ~classifiers[model_instance].model_loaded)
        => resp.status = 503

\* C2: in /ocr/upload-and-classify, when the OCR succeeded and the
\* classification step raised (in get_model or in predict), the response is
\* 200 with the OCR result and classification = null.
C2_ClassificationFailureIsPartialSuccess ==
    (resp.route = "/ocr/upload-and-classify" /\ Called(calls, "get_model") /\ Called(calls, "raise"))
        => /\ resp.status = 200
           /\ resp.body.classification = Null
           /\ resp.body.ocr_result # Null
           /\ resp.body.ocr_result.text # <<>>
           /\ resp.body.ocr_result.engine = Lower(settings.ocr_engine)

C2_Witness ==
    /\ resp.route = "/ocr/upload-and-classify"
    /\ Called(calls, "predict")
    /\ Called(calls, "model")
    /\ Called(calls, "raise")
    /\ resp.status = 200

\* C3: in /ocr/upload-and-classify, when the extracted text is empty or only
\* whitespace, neither get_model nor predict is called and the response
\* carries the OCR result with classification = null.
C3_EmptyTextSkipsClassifier ==
    (resp.route = "/ocr/upload-and-classify" /\ resp.status = 200 /\ Strip(resp.body.ocr_result.text) = <<>>)
        => /\ ~Called(calls, "get_model")
           /\ ~Called(calls, "predict")
           /\ resp.body.classification = Null

C3_Witness ==
    /\ resp.route = "/ocr/upload-and-classify"
    /\ resp.status = 200
    /\ resp.body.ocr_result.text = <<" ">>
    /\ resp.body.classification = Null

\* C4: on both OCR routes, an upload with an image content type and more than
\* max_upload_size bytes is answered 413 with no Image.open; one of exactly
\* max_upload_size bytes is not answered 413.
C4_OversizeRejectedBeforeDecode ==
    (resp.route \in OCRRoutes /\ ~NotAnImageType(upload.content_type))
        => /\ upload.size > max_upload_size => (resp.status = 413 /\ ~Called(calls, "Image.open"))
           /\ upload.size = max_upload_size => resp.status # 413

C4_Witness ==
    /\ resp.route \in OCRRoutes
    /\ upload.content_type = ContentType(S_image_png)
    /\ upload.size = max_upload_size + 1
    /\ resp.status = 413

\* C5: on both OCR routes, an upload whose content type is missing or does
\* not start with 'image/' is answered 400 (not 500), and no OCR processor is
\* obtained, constructed, initialized or run for it.
C5_NonImageRejectedWithoutOCR ==
    (resp.route \in OCRRoutes /\ NotAnImageType(upload.content_type))
        => /\ resp.status = 400
           /\ ~Called(calls, "get_ocr_processor")
           /\ ~Called(calls, "OCRProcessor")
           /\ ~Called(calls, "initialize")
           /\ ~Called(calls, "process_image")

C5_Witness ==
    /\ resp.route \in OCRRoutes
    /\ upload.content_type = ContentType(<<"t", "e", "x", "t", "/", "p", "l", "a", "i", "n">>)
    /\ resp.status = 400

\* C6: on both OCR routes, an upload of an image content type and admissible
\* size whose bytes cannot be decoded as an image is answered with a 4xx
\* status and process_image is not called for it.
C6_UndecodableRejectedBeforeOCR ==
    (resp.route \in OCRRoutes /\ ~NotAnImageType(upload.content_type) /\ upload.size <= max_upload_size
     /\ upload.payload # "valid")
        => (resp.status \in 400..499 /\ ~Called(calls, "process_image"))

\* The call that is the inference of a route.
InferenceCall(route) ==
    CASE route = "/predict" -> "predict"
      [] route = "/predict/batch" -> "predict_batch"
      [] OTHER -> "process_image"

\* The last request's inference (for /ocr/upload-and-classify, its OCR step) raised.
InferenceRaised ==
    /\ resp.route \in {"/predict", "/predict/batch"} \cup OCRRoutes
    /\ Called(calls, InferenceCall(resp.route))
    /\ ~Called(calls, "get_ocr_processor") \/ ~Called(calls, "get_model")
    /\ Len(calls) >= 2
    /\ calls[Len(calls) - 1] = "raise"

\* C7: an exception raised by predict, predict_batch or process_image is
\* answered with status 500 whose detail contains the exception's message,
\* and the request made exactly one inference call.
C7_InferenceFailureIs500WithMessage ==
    InferenceRaised
        => /\ resp.status = 500
           /\ \E i \in DOMAIN resp.detail : resp.detail[i] = calls[Len(calls)]
           /\ Count(calls, InferenceCall(resp.route)) = 1

C7_Witness ==
    /\ InferenceRaised
    /\ resp.route = "/predict/batch"
    /\ Called(calls, "model")
    /\ resp.status = 500

\* C8: under the lifespan, no request is answered before the startup load has
\* succeeded: while starting, and for ever after a startup whose load raised,
\* no handler has run; whenever the server serves, the classifier is loaded.
C8_NoServingWithoutStartupLoad ==
    /\ phase \in {"starting", "aborted"} => (resp = NoResponse /\ upload = NoUpload)
    /\ phase = "serving" => (model_instance # None /\ classifiers[model_instance].model_loaded)

C8_Witness ==
    /\ phase = "aborted"
    /\ Called(calls, "load_model")
    /\ Called(calls, "raise")
    /\ resp = NoResponse

\* C9: once a get_model call has returned an instance, every later get_model
\* call returns that instance and runs no load_model, and no classifier's
\* model_loaded goes from true to false.
C9_SingletonStable ==
    [][/\ (gm # None /\ Called(calls', "get_model")) => (gm' = gm /\ ~Called(calls', "load_model"))
       /\ \A id \in DOMAIN classifiers :
            classifiers[id].model_loaded => (id \in DOMAIN classifiers' /\ classifiers'[id].model_loaded)]_vars

C9_Witness ==
    /\ gm # None
    /\ Called(calls, "get_model")
    /\ ~Called(calls, "load_model")
    /\ ~Called(calls, "LegalTextClassifier")

\* C10: a get_ocr_processor call whose (engine, languages) equal those of the
\* call before it, which returned a processor, returns that same processor
\* and constructs and initializes nothing.
C10_SecondCallReusesProcessor ==
    [][(gop.ret # None /\ Called(calls', "get_ocr_processor")
        /\ gop'.engine = gop.engine /\ gop'.languages = gop.languages)
          => (gop'.ret = gop.ret /\ ~gop'.constructed /\ ~Called(calls', "initialize"))]_vars

\* The language list get_ocr_processor works with: the default for None or [].
LanguagesOrDefault(languages) == IF languages = <<>> THEN <<S_vi, S_en>> ELSE languages

\* The last get_ocr_processor call's (engine, languages) differ from those of
\* the processor that was cached when it was made.
DiffersFromCached ==
    /\ _ocr_processor # None
    /\ Called(calls', "get_ocr_processor")
    /\ \/ processors[_ocr_processor].engine # gop'.engine
       \/ processors[_ocr_processor].languages # LanguagesOrDefault(gop'.languages)

\* C11: a get_ocr_processor call whose engine or languages differ from the
\* cached processor's makes the global refer to a newly constructed processor
\* with the requested engine and languages, initialized when the call
\* returns; no processor's engine or languages change after construction.
C11_SwitchReconstructs ==
    [][/\ DiffersFromCached
            => /\ gop'.constructed
               /\ _ocr_processor' # _ocr_processor
               /\ _ocr_processor' \in DOMAIN processors'
               /\ processors'[_ocr_processor'].engine = Lower(gop'.engine)
               /\ processors'[_ocr_processor'].languages = LanguagesOrDefault(gop'.languages)
               /\ Called(calls', "initialize")
               /\ gop'.ret # None => (gop'.ret = _ocr_processor' /\ processors'[_ocr_processor']._initialized)
       /\ \A id \in DOMAIN processors \cap DOMAIN processors' :
            /\ processors'[id].engine = processors[id].engine
            /\ processors'[id].languages = processors[id].languages]_vars

C11_Witness ==
    /\ _ocr_processor = 2
    /\ gop.constructed
    /\ gop.ret = 2
    /\ gop.engine = S_tesseract
    /\ gop.languages = <<S_en>>
    /\ processors[2].engine = S_tesseract
    /\ processors[2]._initialized

\* The last request was answered with an OCR result.
HasOCRResult == resp.route \in OCRRoutes /\ resp.status = 200

OCRResult == IF resp.route = "/ocr/upload" THEN resp.body ELSE resp.body.ocr_result

\* The fraction lies in [0,1].
InUnitInterval(f) == f.den > 0 /\ 0 <= f.num /\ f.num <= f.den

\* C12: every line's confidence and the average confidence of an OCR result
\* lie in [0,1]; the tesseract backend emits exactly the native entries of
\* confidence > 0, in order, each with its native confidence over 100, and
\* the average is 0 when it emits no line.
C12_ConfidencesNormalized ==
    HasOCRResult
        => /\ \A i \in DOMAIN OCRResult.lines : InUnitInterval(OCRResult.lines[i].confidence)
           /\ InUnitInterval(OCRResult.average_confidence)
           /\ OCRResult.engine = S_tesseract
                => /\ OCRResult.lines = [i \in DOMAIN SelectSeq(native.dets, LAMBDA d : d.conf > 0) |->
                                            [text |-> SelectSeq(native.dets, LAMBDA d : d.conf > 0)[i].text,
                                             confidence |-> [num |-> SelectSeq(native.dets, LAMBDA d : d.conf > 0)[i].conf, den |-> 100]]]
                   /\ OCRResult.lines = <<>> => OCRResult.average_confidence.num = 0

C12_Witness ==
    /\ HasOCRResult
    /\ OCRResult.engine = S_tesseract
    /\ \E i \in DOMAIN native.dets : native.dets[i].conf = -1
    /\ Len(OCRResult.lines) = 1
    /\ OCRResult.average_confidence = [num |-> 96, den |-> 100]

\* C13: predict_batch on a loaded classifier returns one result per input
\* text, in input order: as many results as texts, result i being that of
\* the scores of texts[i].
C13_BatchOnePerInputInOrder ==
    (resp.route = "/predict/batch" /\ resp.status = 200)
        => /\ Len(resp.body.predictions) = Len(input_data)
           /\ Len(input_data) >= 1
           /\ \A i \in DOMAIN input_data : resp.body.predictions[i].all_scores = Probabilities(input_data[i])

C13_Witness ==
    /\ resp.route = "/predict/batch"
    /\ resp.status = 200
    /\ input_data = <<<<"x", "y">>, <<"x">>>>
    /\ resp.body.predictions[1].predicted_class # resp.body.predictions[2].predicted_class

\* C14: the result predict_batch returns at index i, with all its fields,
\* equals the result of predict on texts[i] alone.
C14_BatchEqualsPredict ==
    (resp.route = "/predict/batch" /\ resp.status = 200)
        => \A i \in DOMAIN input_data :
             /\ LegalTextClassifier_predict(classifiers[model_instance], input_data[i], "ok").exc = NoExc
             /\ resp.body.predictions[i] = LegalTextClassifier_predict(classifiers[model_instance], input_data[i], "ok").result

C14_Witness ==
    /\ resp.route = "/predict/batch"
    /\ resp.status = 200
    /\ input_data = <<<<"x">>, <<"x", "y">>>>
    /\ resp.body.predictions[2].predicted_label = id2label(2)

\* The classification results of the last response.
Results ==
    IF resp.status # 200 THEN {}
    ELSE IF resp.route = "/predict" THEN {resp.body}
    ELSE IF resp.route = "/predict/batch" THEN {resp.body.predictions[i] : i \in DOMAIN resp.body.predictions}
    ELSE IF resp.route = "/ocr/upload-and-classify" THEN {resp.body.classification} \ {Null}
    ELSE {}

\* C15: in every result of predict and every element of predict_batch,
\* predicted_class is an index of a maximum of all_scores, confidence is
\* all_scores[predicted_class], and all_scores has one entry per class.
C15_PredictedClassIsArgmax ==
    \A r \in Results :
        /\ Len(r.all_scores) = NumLabels
        /\ r.predicted_class \in 0..(Len(r.all_scores) - 1)
        /\ \A j \in DOMAIN r.all_scores : r.all_scores[j] <= r.all_scores[r.predicted_class + 1]
        /\ r.confidence = r.all_scores[r.predicted_class + 1]

C15_Witness ==
    /\ resp.route = "/predict"
    /\ resp.status = 200
    /\ resp.body.predicted_class = 2
    /\ resp.body.confidence > resp.body.all_scores[1]

\* C16: predict and predict_batch leave every classifier object and the
\* global singleton as they were, and the result of predict is a function of
\* the text alone: the same text gets the same result whatever was called
\* before.
C16_PredictIsPure ==
    [][(Called(calls', "predict") \/ Called(calls', "predict_batch"))
        => /\ \A id \in DOMAIN classifiers : id \in DOMAIN classifiers' /\ classifiers'[id] = classifiers[id]
           /\ model_instance # None => model_instance' = model_instance
           /\ (resp.route = "/predict" /\ resp.status = 200 /\ resp'.route = "/predict" /\ resp'.status = 200
               /\ input_data' = input_data) => resp'.body = resp.body
           /\ \A t \in Texts : (resp'.route = "/predict" /\ resp'.status = 200 /\ input_data' = <<t>>)
                                    => resp'.body.all_scores = Probabilities(t)]_vars

C16_Witness ==
    /\ resp.route = "/predict"
    /\ resp.status = 200
    /\ gm # None
    /\ Called(calls, "predict")
    /\ ~Called(calls, "load_model")
    /\ classifiers[model_instance].model_loaded

\* C17: predict and predict_batch called on a classifier whose model_loaded
\* is false raise without calling the tokenizer or the model, change nothing
\* of the classifier, and give no result.
C17_UnloadedPredictRaises ==
    [][((Called(calls', "predict") \/ Called(calls', "predict_batch"))
        /\ model_instance # None /\ ~classifiers[model_instance].model_loaded)
          => /\ Called(calls', "raise")
             /\ calls'[Len(calls')] = "Model not loaded. Call load_model() first."
             /\ ~Called(calls', "tokenizer")
             /\ ~Called(calls', "model")
             /\ model_instance' = model_instance
             /\ classifiers' = classifiers
             /\ resp'.route \in {"/predict", "/predict/batch"} => resp'.status # 200
             /\ resp'.route = "/ocr/upload-and-classify" => resp'.body.classification = Null]_vars

C17_Witness ==
    /\ resp.route = "/predict/batch"
    /\ resp.status = 500
    /\ Called(calls, "predict_batch")
    /\ ~Called(calls, "tokenizer")
    /\ ~Called(calls, "load_model")
    /\ ~classifiers[model_instance].model_loaded

\* The calls into each OCR backend.
EasyOCRCalls == {"easyocr.Reader", "np.array", "readtext"}

TesseractCalls == {"pytesseract.get_tesseract_version", "image_to_string", "image_to_data"}

\* The configured backend cannot be used on this host.
BackendUnusable ==
    \/ Lower(settings.ocr_engine) = S_easyocr /\ ~libs.EASYOCR_AVAILABLE
    \/ Lower(settings.ocr_engine) = S_tesseract /\ (~libs.PYTESSERACT_AVAILABLE \/ ~libs.tesseract_binary)
    \/ Lower(settings.ocr_engine) \notin {S_easyocr, S_tesseract}

\* C18: when the configured backend cannot be used, or its processing call
\* fails, the OCR request is answered with an error; no request calls into a
\* backend other than the configured one, and a result's engine tag is the
\* engine of the processor that produced it.
C18_NoFallbackBetweenBackends ==
    resp.route \in OCRRoutes
        => /\ (BackendUnusable /\ Called(calls, "get_ocr_processor"))
                => (resp.status = 500 /\ \A i \in DOMAIN calls : calls[i] \notin {"np.array", "readtext", "image_to_string", "image_to_data"})
           /\ native.err # "" => resp.status = 500
           /\ Lower(settings.ocr_engine) # S_easyocr => \A i \in DOMAIN calls : calls[i] \notin EasyOCRCalls
           /\ Lower(settings.ocr_engine) # S_tesseract => \A i \in DOMAIN calls : calls[i] \notin TesseractCalls
           /\ HasOCRResult => (OCRResult.engine = processors[_ocr_processor].engine
                               /\ OCRResult.engine = Lower(settings.ocr_engine))

C18_Witness ==
    /\ resp.route \in OCRRoutes
    /\ resp.status = 500
    /\ Lower(settings.ocr_engine) = S_easyocr
    /\ ~libs.EASYOCR_AVAILABLE
    /\ libs.PYTESSERACT_AVAILABLE
    /\ libs.tesseract_binary
    /\ Called(calls, "initialize")
    /\ processors[_ocr_processor].engine = S_easyocr

\* C19: every instance a get_model call returned has model_loaded = true,
\* and /health never answers 'healthy' with model_loaded = false.
C19_GetModelReturnsLoaded ==
    /\ gm # None => classifiers[gm].model_loaded
    /\ (resp.route = "/health" /\ resp.status = 200) => resp.body.model_loaded

\* Every get_model call has returned or raised.
AllCallsOver == \A t \in Callers : threads[t].pc \in {"done", "raised"}

\* C20: get_model runs without mutual exclusion: callers that find the global
\* None each construct an instance (two constructed and loaded instances are
\* reachable), and once every call is over the global refers to exactly one
\* of the constructed instances, the one assigned last; every caller that
\* returned got a constructed instance.
C20_RaceLeavesOneGlobal ==
    AllCallsOver
        => /\ model_instance \in DOMAIN classifiers
           /\ model_instance = Cardinality(DOMAIN classifiers)
           /\ Cardinality(DOMAIN classifiers) <= MaxCallers
           /\ \A t \in Callers : threads[t].pc = "done" => threads[t].ret \in DOMAIN classifiers

C20_Witness ==
    /\ AllCallsOver
    /\ Cardinality(DOMAIN classifiers) = 2
    /\ classifiers[1].model_loaded
    /\ classifiers[2].model_loaded
    /\ model_instance = 2
    /\ threads[1].ret # threads[2].ret

\* The calls that run a backend on an image.
BackendRunCalls == {"np.array", "readtext", "image_to_string", "image_to_data"}

\* The calls by which initialize builds or probes a backend.
BackendSetupCalls == {"easyocr.Reader", "pytesseract.get_tesseract_version"}

\* The cached processor's initialize has raised and has not succeeded since.
CachedUninitialized == _ocr_processor # None /\ ~processors[_ocr_processor]._initialized

\* C21: a backend is run only on an initialized processor (an easyocr one has
\* its reader). process_image on an uninitialized processor calls initialize
\* first; on an initialized processor nothing builds or probes a backend
\* again and the processor is left as it was (one reader per processor, at
\* most one built per call). After a get_ocr_processor call whose initialize
\* raised, a call with the same arguments either constructs and initializes
\* anew or returns the cached processor, on which process_image re-attempts
\* initialize and runs no backend unless that succeeded.
C21_BackendOnlyOnInitialized ==
    [][/\ (\E i \in DOMAIN calls' : calls'[i] \in BackendRunCalls)
            => /\ _ocr_processor' # None
               /\ processors'[_ocr_processor']._initialized
               /\ processors'[_ocr_processor'].engine = S_easyocr
                    => processors'[_ocr_processor'].reader = "easyocr.Reader"
       /\ (CachedUninitialized /\ Called(calls', "process_image"))
            => /\ Called(calls', "initialize")
               /\ ~processors'[_ocr_processor']._initialized
                    => (Called(calls', "raise") /\ \A i \in DOMAIN calls' : calls'[i] \notin BackendRunCalls)
       /\ (_ocr_processor # None /\ ~CachedUninitialized /\ ~Called(calls', "OCRProcessor"))
            => /\ processors' = processors
               /\ \A i \in DOMAIN calls' : calls'[i] \notin BackendSetupCalls
       /\ Count(calls', "easyocr.Reader") <= 1
       /\ (CachedUninitialized /\ Called(calls', "get_ocr_processor")
             /\ gop'.engine = gop.engine /\ gop'.languages = gop.languages)
            => /\ \A i \in DOMAIN calls' : calls'[i] \notin BackendRunCalls
               /\ \/ gop'.constructed /\ Called(calls', "initialize")
                  \/ ~gop'.constructed /\ gop'.ret = _ocr_processor /\ processors' = processors]_vars

\* process_image, on the processor a failed get_ocr_processor call left
\* cached, has initialized it and run easyocr.
C21_Witness ==
    /\ gop.constructed
    /\ gop.ret = None
    /\ calls = <<"process_image", "initialize", "easyocr.Reader", "np.array", "readtext">>
    /\ processors[_ocr_processor]._initialized
    /\ processors[_ocr_processor].reader = "easyocr.Reader"

====
